---- MODULE Spec2Model ----
(***************************************************************************)
(* Constraint propagators of src/propagators.py (prop_BT, prop_FC,         *)
(* prop_GAC) run by a backtracking search over small CSPs built the way    *)
(* src/puzzle_csp.py builds them (tuple-table constraints).                *)
(*                                                                         *)
(* Variables are numbered 1..n, constraints are numbered by their place in *)
(* the CSP's constraint list, None is 0.  The Variable / Constraint / CSP  *)
(* classes and bt_search come from module cspbase; their operations follow *)
(* the specification's collaborator contract: a variable keeps a set of    *)
(* unpruned values and an assignment slot, and the current domain of an    *)
(* assigned variable is its assigned value (this is what makes GAC prune 1 *)
(* from X2 and X3 after X1 = 1 in the specification's all-different        *)
(* scenario).                                                              *)
(***************************************************************************)
EXTENDS Integers, Sequences, FiniteSets, TLC

\* Largest number of simultaneously assigned variables the search explores.
MaxDepth == 3

None == 0

(***************************************************************************)
(* Satisfying-tuple tables, as the generators of puzzle_csp.py build them. *)
(***************************************************************************)
\* binary not-equal: all pairs over the domain with different components
NeTuples(D) == {t \in [1..2 -> D] : t[1] # t[2]}

\* n-ary all-different: tuples of length len(domain) without a repeated value
AllDiffTuples(D) ==
    {t \in [1..Cardinality(D) -> D] :
        \A i, j \in 1..Cardinality(D) : i # j => t[i] # t[j]}

RECURSIVE SumTo(_, _)
SumTo(t, n) == IF n = 0 THEN 0 ELSE t[n] + SumTo(t, n - 1)

\* exist_sat_per for op = 1: some permutation p has p[0] - p[1] - ... = target,
\* that is, some component minus the sum of the others is the target
ExistSatPerSub(t, n, target) ==
    \E i \in 1..n : t[i] - (SumTo(t, n) - t[i]) = target

\* cage with op 0 (+): the components add up to target
CageAddTuples(D, n, target) == {t \in [1..n -> D] : SumTo(t, n) = target}

\* cage with op 1 (-)
CageSubTuples(D, n, target) == {t \in [1..n -> D] : ExistSatPerSub(t, n, target)}

\* cage of one cell: value enforcement, the single tuple (target)
CageCellTuples(target) == {<<target>>}

Con(scope, sat) == [scope |-> scope, sat |-> sat]

(***************************************************************************)
(* The CSPs explored: dom[v] is the full domain of variable v, cons the    *)
(* constraint list in the order of add_constraint.                         *)
(***************************************************************************)
Catalog ==
    << \* one row of three cells, n-ary all-different
       [dom  |-> << {1,2,3}, {1,2,3}, {1,2,3} >>,
        cons |-> << Con(<<1,2,3>>, AllDiffTuples({1,2,3})) >>],
       \* two cells, binary not-equal
       [dom  |-> << {1,2}, {1,2} >>,
        cons |-> << Con(<<1,2>>, NeTuples({1,2})) >>],
       \* two cells of one value, binary not-equal
       [dom  |-> << {1}, {1} >>,
        cons |-> << Con(<<1,2>>, NeTuples({1})) >>],
       \* row of three cells, binary not-equal, third cell enforced to 1
       [dom  |-> << {1,2,3}, {1,2,3}, {1} >>,
        cons |-> << Con(<<1,2>>, NeTuples({1,2,3})),
                    Con(<<1,3>>, NeTuples({1,2,3})),
                    Con(<<2,3>>, NeTuples({1,2,3})),
                    Con(<<3>>, CageCellTuples(1)) >>],
       \* not-equal, and two difference-0 cages: no solution, found only by
       \* chaining through all three constraints
       [dom  |-> << {1,2}, {1,2}, {1,2} >>,
        cons |-> << Con(<<1,2>>, NeTuples({1,2})),
                    Con(<<2,3>>, CageSubTuples({1,2}, 2, 0)),
                    Con(<<1,3>>, CageSubTuples({1,2}, 2, 0)) >>],
       \* row of three cells, binary not-equal, with a sum cage on cells 1, 2
       [dom  |-> << {1,2,3}, {1,2,3}, {1,2,3} >>,
        cons |-> << Con(<<1,2>>, NeTuples({1,2,3})),
                    Con(<<1,3>>, NeTuples({1,2,3})),
                    Con(<<2,3>>, NeTuples({1,2,3})),
                    Con(<<1,2>>, CageAddTuples({1,2,3}, 2, 5)) >>],
       \* two cells enforced to the same value, binary not-equal
       [dom  |-> << {2}, {1,2}, {2} >>,
        cons |-> << Con(<<1,2>>, NeTuples({1,2})),
                    Con(<<2,3>>, NeTuples({1,2})),
                    Con(<<1,3>>, NeTuples({1,2})) >>],
       \* binary_ne_grid of dimension 2: cells 11, 12, 21, 22 are 1..4,
       \* row constraints first, then column constraints
       [dom  |-> << {1,2}, {1,2}, {1,2}, {1,2} >>,
        cons |-> << Con(<<1,2>>, NeTuples({1,2})),
                    Con(<<3,4>>, NeTuples({1,2})),
                    Con(<<1,3>>, NeTuples({1,2})),
                    Con(<<2,4>>, NeTuples({1,2})) >>],
       \* a difference-0 cage on cells 1, 2 listed before the not-equal
       \* that prunes cell 2 (cell 3 is enforced to 1)
       [dom  |-> << {1,2}, {1,2}, {1} >>,
        cons |-> << Con(<<1,2>>, CageSubTuples({1,2}, 2, 0)),
                    Con(<<2,3>>, NeTuples({1,2})) >>],
       \* two cells, binary not-equal, the second cell enforced to 2
       [dom  |-> << {1,2}, {2} >>,
        cons |-> << Con(<<1,2>>, NeTuples({1,2})) >>]
    >>

Strategies == {"BT", "FC", "GAC"}

VARIABLES
    k,            \* the CSP searched: an index of Catalog
    prop,         \* the propagator bt_search was given
    curdom,       \* Variable.curdom: the unpruned values of each variable
    asg,          \* Variable.assignedValue, None when unassigned
    pc,           \* "start", "call", "idle", "fc", "gac", "returned", "done"
    newVar,       \* the propagator's argument, None or a variable
    pruned_pairs, \* the propagator's pruning record
    verdict,      \* the boolean the call returned (read when pc = "returned")
    cons,         \* prop_FC: the constraint list scanned
    ci,           \* prop_FC: position in cons of the constraint at hand
    X,            \* fc_check: the variable checked, None outside fc_check
    gac_q,        \* gac_enforce: the worklist
    con,          \* gac_enforce: the constraint popped, None between pops
    vi,           \* gac_enforce: position in con's scope of var
    ds,           \* the values of cur_domain() still to be visited by `for d`
    stack,        \* bt_recurse: one frame (variable, prunings) per assignment
    acc,          \* prunings of the calls already made for this assignment
    calls,        \* number of calls made since the last assignment
    dom0,         \* curdom at the start of the running/last call
    asg0,         \* asg at the start of the running/last call
    csp_cons,     \* CSP: the constraint list get_all_cons() reads
    own_list,     \* get_all_cons() hands out the CSP's list itself, not a copy
    aliased       \* gac_q is the very list object the CSP keeps

vars == << k, prop, curdom, asg, pc, newVar, pruned_pairs, verdict, cons, ci,
           X, gac_q, con, vi, ds, stack, acc, calls, dom0, asg0, csp_cons,
           own_list, aliased >>

Vars == 1..Len(Catalog[k].dom)
Dom(v) == Catalog[k].dom[v]
Cons == 1..Len(Catalog[k].cons)
Scope(c) == Catalog[k].cons[c].scope
Sat(c) == Catalog[k].cons[c].sat

InSeq(x, s) == \E i \in 1..Len(s) : s[i] = x

RECURSIVE SetToSeq(_)
SetToSeq(S) ==
    IF S = {} THEN << >>
    ELSE LET m == CHOOSE x \in S : \A y \in S : x <= y
         IN << m >> \o SetToSeq(S \ {m})

(***************************************************************************)
(* Variable                                                                *)
(***************************************************************************)
IsAssigned(v) == asg[v] # None

\* cur_domain(): the assigned value alone, or the unpruned values in order
CurDomain(v) == IF IsAssigned(v) THEN << asg[v] >> ELSE SetToSeq(curdom[v])

CurDomainSize(v) == IF IsAssigned(v) THEN 1 ELSE Cardinality(curdom[v])

InCurDomain(v, d) == IF IsAssigned(v) THEN d = asg[v] ELSE d \in curdom[v]

\* prune_value(d), unprune_value(d), assign(d), unassign() as new field values
PruneValue(cd, v, d) == [cd EXCEPT ![v] = @ \ {d}]

UnpruneValue(cd, v, d) == [cd EXCEPT ![v] = @ \cup {d}]

Assign(a, v, d) == [a EXCEPT ![v] = d]

Unassign(a, v) == [a EXCEPT ![v] = None]

(***************************************************************************)
(* Constraint and CSP                                                      *)
(***************************************************************************)
InScope(c, v) == \E i \in 1..Len(Scope(c)) : Scope(c)[i] = v

GetNUnasgn(c) == Cardinality({i \in 1..Len(Scope(c)) : ~IsAssigned(Scope(c)[i])})

\* get_unasgn_vars()[0]: the first unassigned variable in scope order
FirstUnasgn(c) ==
    LET i == CHOOSE j \in 1..Len(Scope(c)) :
                 /\ ~IsAssigned(Scope(c)[j])
                 /\ \A h \in 1..(j-1) : IsAssigned(Scope(c)[h])
    IN Scope(c)[i]

\* check(vals): vals is one of the satisfying tuples
Check(c, vals) == vals \in Sat(c)

\* has_support(v, d): a satisfying tuple with d at v's place, every
\* component in the current domain of its variable
HasSupport(c, v, d) ==
    \E t \in Sat(c) :
        /\ \E i \in 1..Len(Scope(c)) : Scope(c)[i] = v /\ t[i] = d
        /\ \A i \in 1..Len(Scope(c)) : InCurDomain(Scope(c)[i], t[i])

GetAllCons == csp_cons

RECURSIVE ConsWithVarFrom(_, _)
ConsWithVarFrom(v, c) ==
    IF c > Len(Catalog[k].cons) THEN << >>
    ELSE (IF InScope(c, v) THEN << c >> ELSE << >>) \o ConsWithVarFrom(v, c + 1)

GetConsWithVar(v) == ConsWithVarFrom(v, 1)


(***************************************************************************)
(* prop_BT                                                                 *)
(***************************************************************************)
\* the assigned values of c's scope variables, in scope order
AssignedVals(c, a) == [i \in 1..Len(Scope(c)) |-> a[Scope(c)[i]]]

\* variant: the tuple is checked whether or not the scope is fully assigned
BTFailsUnguarded(c) == ~Check(c, AssignedVals(c, asg))

\* the test of one constraint: fully assigned and falsified
BTFails(c) == GetNUnasgn(c) = 0 /\ ~Check(c, AssignedVals(c, asg))

\* the loop over get_cons_with_var(newVar), left at the first failing one
RECURSIVE BTScan(_)
BTScan(cs) ==
    IF cs = << >> THEN TRUE
    ELSE IF BTFails(Head(cs)) THEN FALSE
    ELSE BTScan(Tail(cs))

BTVerdict(nv) == IF nv = None THEN TRUE ELSE BTScan(GetConsWithVar(nv))

(***************************************************************************)
(* prop_FC and prop_GAC: the pieces of one loop iteration                  *)
(***************************************************************************)
\* variant: only the call before any assignment has constraints to look at
SeedConsAtStartOnly(nv) == IF nv = None THEN GetAllCons ELSE << >>

\* the constraint list a call starts from
SeedCons(nv) == IF nv = None THEN GetAllCons ELSE GetConsWithVar(nv)

\* variant: C is checked before X holds d
FCFalsifiesUnassigned(c, x, d) == ~Check(c, AssignedVals(c, asg))

\* fc_check, one value: X assigned d falsifies C
FCFalsifies(c, x, d) == ~Check(c, AssignedVals(c, Assign(asg, x, d)))

\* variant: X keeps the probed value
FCProbeAsgKept(x, d) == Assign(asg, x, d)

\* fc_check, one value: the assignment slots after assign(d) ... unassign()
FCProbeAsg(x, d) == Unassign(Assign(asg, x, d), x)

\* variant: the loop visits the full domain, pruned values included
FCValuesFullDomain(x) == SetToSeq(Dom(x))

\* fc_check: the values `for d in X.cur_domain()` visits
FCValues(x) == CurDomain(x)

\* variant: the loop visits the unpruned values, assigned variable or not
GACValuesUnpruned(v) == SetToSeq(curdom[v])

\* variant: the loop starts at the second value
GACValuesSkipFirst(v) == Tail(CurDomain(v))

\* gac_enforce: the values `for d in var.cur_domain()` visits
GACValues(v) == CurDomain(v)

\* variant: only a constraint over a single variable is forward-checked
FCQualifiesUnary(c) == Len(Scope(c)) = 1 /\ GetNUnasgn(c) = 1

\* fc_check: is a constraint forward-checked
FCQualifies(c) == GetNUnasgn(c) = 1

\* variant: a domain of one value counts as wiped out
FCWipeoutAtOne(x) == CurDomainSize(x) <= 1

\* variant: the wipeout goes unnoticed
FCWipeoutNever(x) == FALSE

\* fc_check, after the loop: domain wipeout
FCWipeout(x) == CurDomainSize(x) = 0

\* gac_enforce: d is pruned from var
GACUnsupported(c, v, d) == ~HasSupport(c, v, d)

\* variant: the size is read before the prune
GACWipeoutBeforePrune(cd, v) == CurDomainSize(v) = 0

\* gac_enforce, after a prune: domain wipeout, tested on the pruned domain
GACWipeout(cd, v) == (IF IsAssigned(v) THEN 1 ELSE Cardinality(cd[v])) = 0

\* variant: the head is read and left in the worklist
DequeueKeep(q) == q

\* gac_queue = csp.get_all_cons(): the worklist is the list handed out, so
\* it is the CSP's own list when get_all_cons() does not copy;
\* get_cons_with_var(newVar) is taken to build its list at each call
SeedIsCspList(nv) == nv = None /\ own_list

\* gac_q.clear(): the list emptied in place
Cleared == << >>

\* gac_q.pop(0): what is left of the worklist
Dequeue(q) == Tail(q)

\* variant: no membership test, every constraint of the variable is pushed
RECURSIVE PushAlways(_, _)
PushAlways(rs, q) ==
    IF rs = << >> THEN q
    ELSE PushAlways(Tail(rs), << Head(rs) >> \o q)

\* variant: the membership test is inverted
RECURSIVE PushPresent(_, _)
PushPresent(rs, q) ==
    IF rs = << >> THEN q
    ELSE PushPresent(Tail(rs), IF InSeq(Head(rs), q) THEN << Head(rs) >> \o q ELSE q)

\* the loop pushing each constraint with var that is not in gac_q to its front
RECURSIVE PushAbsent(_, _)
PushAbsent(rs, q) ==
    IF rs = << >> THEN q
    ELSE PushAbsent(Tail(rs), IF InSeq(Head(rs), q) THEN q ELSE << Head(rs) >> \o q)

\* variant: the constraint being processed is not pushed back
RequeueOthers(q, v) ==
    PushAbsent(SelectSeq(GetConsWithVar(v), LAMBDA c : c # con), q)

\* variant: nothing is pushed after a prune
RequeueNone(q, v) == q

Requeue(q, v) == PushAbsent(GetConsWithVar(v), q)

\* variant: the prune is not recorded
RecordNothing(pp, v, d) == pp

\* the pruning record after one more prune
Record(pp, v, d) == Append(pp, << v, d >>)

(***************************************************************************)
(* bt_search: what it does with a pruning record                           *)
(***************************************************************************)
RECURSIVE RestoreValues(_, _)
RestoreValues(cd, pairs) ==
    IF pairs = << >> THEN cd
    ELSE RestoreValues(UnpruneValue(cd, Head(pairs)[1], Head(pairs)[2]), Tail(pairs))

(***************************************************************************)
(* Initial states: a CSP, a propagator, nothing assigned, nothing pruned   *)
(***************************************************************************)
Init ==
    /\ k \in 1..Len(Catalog)
    /\ prop \in Strategies
    /\ curdom = [v \in Vars |-> Dom(v)]
    /\ asg = [v \in Vars |-> None]
    /\ pc = "start"
    /\ newVar = None
    /\ pruned_pairs = << >>
    /\ verdict = TRUE
    /\ cons = << >>
    /\ ci = 0
    /\ X = None
    /\ gac_q = << >>
    /\ con = None
    /\ vi = 0
    /\ ds = << >>
    /\ stack = << >>
    /\ acc = << >>
    /\ calls = 0
    /\ dom0 = curdom
    /\ asg0 = asg
    /\ csp_cons = [c \in Cons |-> c]
    /\ own_list \in BOOLEAN
    /\ aliased = FALSE

NoFC == /\ cons' = << >> /\ ci' = 0 /\ X' = None
NoGAC == /\ gac_q' = << >> /\ con' = None /\ vi' = 0 /\ aliased' = FALSE

\* a call returns: its locals are gone, the record and the verdict stay
Return(b) ==
    /\ pc' = "returned"
    /\ verdict' = b
    /\ NoFC /\ NoGAC /\ ds' = << >>

(***************************************************************************)
(* bt_search / bt_recurse                                                  *)
(***************************************************************************)
\* the call before any assignment
BtSearch ==
    /\ pc = "start"
    /\ pc' = "call"
    /\ UNCHANGED << k, prop, own_list, csp_cons,
                    curdom, asg, newVar, pruned_pairs, verdict, cons,
                    ci, X, gac_q, aliased, con, vi, ds, stack, acc, calls, dom0, asg0 >>

\* assign an unassigned variable a value of its current domain, then propagate
BtAssign ==
    /\ pc = "idle"
    /\ Len(stack) <= MaxDepth
    /\ \E v \in Vars : \E d \in Dom(v) :
          /\ ~IsAssigned(v)
          /\ InCurDomain(v, d)
          /\ asg' = Assign(asg, v, d)
          /\ newVar' = v
    /\ pc' = "call"
    /\ UNCHANGED << k, prop, own_list, csp_cons,
                    curdom, pruned_pairs, verdict, cons, ci, X, gac_q, aliased,
                    con, vi, ds, stack, acc, calls, dom0, asg0 >>

\* True: keep the prunings on the undo stack and go on
BtContinue ==
    /\ pc = "returned" /\ verdict
    /\ stack' = Append(stack, [var |-> newVar, pruned |-> acc \o pruned_pairs])
    /\ pc' = "idle"
    /\ newVar' = None /\ pruned_pairs' = << >> /\ acc' = << >> /\ calls' = 0
    /\ dom0' = curdom /\ asg0' = asg
    /\ UNCHANGED << k, prop, own_list, csp_cons,
                    curdom, asg, verdict, cons, ci, X, gac_q, aliased, con, vi, ds >>

\* False: restore the prunings, undo the assignment
BtDeadend ==
    /\ pc = "returned" /\ ~verdict
    /\ curdom' = RestoreValues(curdom, acc \o pruned_pairs)
    /\ asg' = IF newVar = None THEN asg ELSE Unassign(asg, newVar)
    /\ pc' = IF newVar = None THEN "done" ELSE "idle"
    /\ newVar' = None /\ pruned_pairs' = << >> /\ acc' = << >> /\ calls' = 0
    /\ verdict' = TRUE
    /\ dom0' = curdom' /\ asg0' = asg'
    /\ UNCHANGED << k, prop, own_list, csp_cons,
                    cons, ci, X, gac_q, aliased, con, vi, ds, stack >>

\* the same call once more, nothing assigned or restored in between
BtCallAgain ==
    /\ pc = "returned" /\ verdict /\ calls = 1
    /\ acc' = acc \o pruned_pairs
    /\ pc' = "call"
    /\ UNCHANGED << k, prop, own_list, csp_cons,
                    curdom, asg, newVar, pruned_pairs, verdict, cons,
                    ci, X, gac_q, aliased, con, vi, ds, stack, calls, dom0, asg0 >>

\* leave the innermost assignment: restore its prunings, unassign
BtBacktrack ==
    /\ pc = "idle"
    /\ LET top == stack[Len(stack)]
       IN /\ curdom' = RestoreValues(curdom, top.pruned)
          /\ asg' = IF top.var = None THEN asg ELSE Unassign(asg, top.var)
          /\ pc' = IF top.var = None THEN "done" ELSE "idle"
    /\ stack' = SubSeq(stack, 1, Len(stack) - 1)
    /\ dom0' = curdom' /\ asg0' = asg'
    /\ UNCHANGED << k, prop, own_list, csp_cons,
                    newVar, pruned_pairs, verdict, cons, ci, X, gac_q, aliased,
                    con, vi, ds, acc, calls >>

(***************************************************************************)
(* prop_BT                                                                 *)
(***************************************************************************)
Enter ==
    /\ pc = "call"
    /\ pruned_pairs' = << >>
    /\ calls' = calls + 1
    /\ dom0' = curdom /\ asg0' = asg

PropBT ==
    /\ prop = "BT"
    /\ Enter
    /\ Return(BTVerdict(newVar))
    /\ UNCHANGED << k, prop, own_list, csp_cons,
                    curdom, asg, newVar, stack, acc >>

(***************************************************************************)
(* prop_FC                                                                 *)
(***************************************************************************)
PropFC ==
    /\ prop = "FC"
    /\ Enter
    /\ cons' = SeedCons(newVar)
    /\ ci' = 1
    /\ pc' = "fc"
    /\ UNCHANGED << k, prop, own_list, csp_cons,
                    curdom, asg, newVar, verdict, X, gac_q, aliased, con, vi,
                    ds, stack, acc >>

\* for c in cons: the next constraint, fc_check entered when one variable is left
FCNextCon ==
    /\ pc = "fc" /\ X = None /\ ci <= Len(cons)
    /\ IF FCQualifies(cons[ci])
       THEN /\ X' = FirstUnasgn(cons[ci])
            /\ ds' = FCValues(FirstUnasgn(cons[ci]))
            /\ ci' = ci
       ELSE /\ ci' = ci + 1
            /\ UNCHANGED << X, ds >>
    /\ UNCHANGED << k, prop, own_list, csp_cons,
                    curdom, asg, pc, newVar, pruned_pairs, verdict,
                    cons, gac_q, aliased, con, vi, stack, acc, calls, dom0, asg0 >>

\* for d in X.cur_domain(): assign, check, prune, unassign
FCValue ==
    /\ pc = "fc" /\ X # None /\ ds # << >>
    /\ LET d == Head(ds)
       IN /\ IF FCFalsifies(cons[ci], X, d)
             THEN /\ curdom' = PruneValue(curdom, X, d)
                  /\ pruned_pairs' = Record(pruned_pairs, X, d)
             ELSE UNCHANGED << curdom, pruned_pairs >>
          /\ asg' = FCProbeAsg(X, d)
    /\ ds' = Tail(ds)
    /\ UNCHANGED << k, prop, own_list, csp_cons,
                    pc, newVar, verdict, cons, ci, X, gac_q, aliased, con, vi,
                    stack, acc, calls, dom0, asg0 >>

\* variant: the call returns True after the first constraint checked
FCEndCheckFirstOnly ==
    /\ pc = "fc" /\ X # None /\ ds = << >>
    /\ Return(~FCWipeout(X))
    /\ UNCHANGED << k, prop, own_list, csp_cons,
                    curdom, asg, newVar, pruned_pairs, stack,
                    acc, calls, dom0, asg0 >>

\* after the loop over the values: domain wipeout ends the call
FCEndCheck ==
    /\ pc = "fc" /\ X # None /\ ds = << >>
    /\ IF FCWipeout(X)
       THEN /\ Return(FALSE)
            /\ UNCHANGED << k, prop, own_list, csp_cons,
                            curdom, asg, newVar, pruned_pairs, stack,
                            acc, calls, dom0, asg0 >>
       ELSE /\ X' = None
            /\ ci' = ci + 1
            /\ UNCHANGED << k, prop, own_list, csp_cons,
                            curdom, asg, pc, newVar, pruned_pairs,
                            verdict, cons, gac_q, aliased, con, vi, ds, stack, acc,
                            calls, dom0, asg0 >>

FCReturnTrue ==
    /\ pc = "fc" /\ X = None /\ ci > Len(cons)
    /\ Return(TRUE)
    /\ UNCHANGED << k, prop, own_list, csp_cons,
                    curdom, asg, newVar, pruned_pairs, stack, acc,
                    calls, dom0, asg0 >>

(***************************************************************************)
(* prop_GAC                                                                *)
(***************************************************************************)
PropGAC ==
    /\ prop = "GAC"
    /\ Enter
    /\ gac_q' = SeedCons(newVar)
    /\ aliased' = SeedIsCspList(newVar)
    /\ pc' = "gac"
    /\ UNCHANGED << k, prop, own_list, csp_cons,
                    curdom, asg, newVar, verdict, cons, ci, X, con,
                    vi, ds, stack, acc >>

\* con = gac_q.pop(0), and the first variable of its scope
GACPop ==
    /\ pc = "gac" /\ con = None /\ gac_q # << >>
    /\ con' = Head(gac_q)
    /\ gac_q' = Dequeue(gac_q)
    /\ csp_cons' = IF aliased THEN Dequeue(csp_cons) ELSE csp_cons
    /\ UNCHANGED aliased
    /\ vi' = 1
    /\ ds' = GACValues(Scope(Head(gac_q))[1])
    /\ UNCHANGED << k, prop, own_list, curdom, asg, pc, newVar, pruned_pairs, verdict,
                    cons, ci, X, stack, acc, calls, dom0, asg0 >>

\* for d in var.cur_domain(): test d, prune it, wipe out or push constraints
GACValue ==
    /\ pc = "gac" /\ con # None /\ ds # << >>
    /\ LET v == Scope(con)[vi]
           d == Head(ds)
       IN IF GACUnsupported(con, v, d)
          THEN /\ curdom' = PruneValue(curdom, v, d)
               /\ pruned_pairs' = Record(pruned_pairs, v, d)
               /\ IF GACWipeout(PruneValue(curdom, v, d), v)
                  THEN /\ Return(FALSE)
                       /\ csp_cons' = IF aliased THEN Cleared ELSE csp_cons
                  ELSE /\ gac_q' = Requeue(gac_q, v)
                       /\ aliased' = (aliased /\ Requeue(gac_q, v) = gac_q)
                       /\ UNCHANGED csp_cons
                       /\ ds' = Tail(ds)
                       /\ UNCHANGED << pc, verdict, cons, ci, X, con, vi >>
          ELSE /\ ds' = Tail(ds)
               /\ UNCHANGED << curdom, pruned_pairs, pc, verdict, cons, ci, X,
                               gac_q, aliased, con, vi, csp_cons >>
    /\ UNCHANGED << k, prop, own_list, asg, newVar, stack, acc, calls, dom0, asg0 >>

\* for var in con.get_scope(): the next variable of the scope
GACNextVar ==
    /\ pc = "gac" /\ con # None /\ ds = << >> /\ vi < Len(Scope(con))
    /\ vi' = vi + 1
    /\ ds' = GACValues(Scope(con)[vi + 1])
    /\ UNCHANGED << k, prop, own_list, csp_cons,
                    curdom, asg, pc, newVar, pruned_pairs, verdict,
                    cons, ci, X, gac_q, aliased, con, stack, acc, calls, dom0, asg0 >>

\* the scope is done: back to the while test
GACEndCon ==
    /\ pc = "gac" /\ con # None /\ ds = << >> /\ vi = Len(Scope(con))
    /\ con' = None
    /\ vi' = 0
    /\ UNCHANGED << k, prop, own_list, csp_cons,
                    curdom, asg, pc, newVar, pruned_pairs, verdict,
                    cons, ci, X, gac_q, aliased, ds, stack, acc, calls, dom0, asg0 >>

\* the worklist is empty
GACReturnTrue ==
    /\ pc = "gac" /\ con = None /\ gac_q = << >>
    /\ Return(TRUE)
    /\ UNCHANGED << k, prop, own_list, csp_cons,
                    curdom, asg, newVar, pruned_pairs, stack, acc,
                    calls, dom0, asg0 >>

GACStep == GACPop \/ GACValue \/ GACNextVar \/ GACEndCon \/ GACReturnTrue

FCStep == FCNextCon \/ FCValue \/ FCEndCheck \/ FCReturnTrue

Next ==
    \/ BtSearch
    \/ BtAssign
    \/ BtContinue
    \/ BtDeadend
    \/ BtCallAgain
    \/ BtBacktrack
    \/ PropBT
    \/ PropFC
    \/ FCNextCon
    \/ FCValue
    \/ FCEndCheck
    \/ FCReturnTrue
    \/ PropGAC
    \/ GACPop
    \/ GACValue
    \/ GACNextVar
    \/ GACEndCon
    \/ GACReturnTrue

Spec == Init /\ [][Next]_vars

\* a call runs to completion: the propagator's steps are not starved
LiveSpec == Spec /\ WF_vars(GACStep) /\ WF_vars(FCStep)

(***************************************************************************)
(* Properties                                                              *)
(***************************************************************************)
Last(s) == s[Len(s)]

\* the values the pruning record holds for v
RecordedFor(v) ==
    {pruned_pairs[i][2] : i \in {j \in 1..Len(pruned_pairs) : pruned_pairs[j][1] = v}}

\* the constraint a forward-checking or GAC step is examining
AtHand == IF pc = "fc" THEN cons[ci] ELSE con

\* every value of every current domain has support in every constraint
\* whose scope holds its variable
AllSupported ==
    \A v \in Vars : \A c \in Cons :
        InScope(c, v) =>
            \A i \in 1..Len(CurDomain(v)) : HasSupport(c, v, CurDomain(v)[i])

\* C1: when prop_GAC returns True, every value of every variable's current
\* domain has support in every constraint whose scope contains the variable.
GACFixedPoint ==
    (pc = "returned" /\ prop = "GAC" /\ verdict) => AllSupported

\* a True return of prop_GAC, called for an assigned variable, that pruned
\* values of two variables
GACFixedPointWitness ==
    /\ pc = "returned" /\ prop = "GAC" /\ verdict /\ newVar # None
    /\ \E i, j \in 1..Len(pruned_pairs) : pruned_pairs[i][1] # pruned_pairs[j][1]

\* C2: when a propagator returns (True or False), the values removed from
\* each variable's unpruned set during the call are exactly the values the
\* returned list records for it, so restoring the list gives the domains
\* the call started from.
UndoExactness ==
    pc = "returned" =>
        /\ \A v \in Vars :
              /\ dom0[v] = curdom[v] \cup RecordedFor(v)
              /\ curdom[v] \cap RecordedFor(v) = {}
        /\ RestoreValues(curdom, pruned_pairs) = dom0

\* a False return with at least two pruned pairs
UndoExactnessWitness ==
    pc = "returned" /\ ~verdict /\ Len(pruned_pairs) >= 2

\* C3: within a call of prop_FC or prop_GAC, a pair appended to the pruning
\* record is not in the record yet, and its value is in the variable's
\* current domain (unpruned) when it is pruned.
NoDoublePrune ==
    [][\A v \in Vars : \A d \in Dom(v) :
          (pc \in {"fc", "gac"} /\ pruned_pairs' = Append(pruned_pairs, << v, d >>))
          => /\ ~InSeq(<< v, d >>, pruned_pairs)
             /\ d \in curdom[v]
             /\ InCurDomain(v, d)]_vars

\* forward checking enters a constraint whose sole unassigned variable
\* already lost a value to an earlier constraint of the same call
NoDoublePruneWitness ==
    /\ pc = "fc" /\ X # None /\ ds # << >> /\ ds = FCValues(X)
    /\ \E i \in 1..Len(pruned_pairs) : pruned_pairs[i][1] = X

\* C4: a value leaves a variable's unpruned set only in a step of prop_FC or
\* prop_GAC, and only when the constraint being examined holds the variable
\* and has no satisfying tuple with that value whose other components are
\* in the current domains (the assigned values) of the other scope
\* variables; prop_BT removes nothing.
NoSupportedValuePruned ==
    [][\A v \in Vars : \A d \in Dom(v) :
          (d \in curdom[v] /\ d \notin curdom'[v])
          => /\ pc \in {"fc", "gac"}
             /\ prop # "BT"
             /\ InScope(AtHand, v)
             /\ ~HasSupport(AtHand, v, d)]_vars

\* forward checking has pruned a value and kept another of the same variable
NoSupportedValuePrunedWitness ==
    /\ pc = "fc" /\ X # None /\ ds = << >>
    /\ \E i \in 1..Len(pruned_pairs) : pruned_pairs[i][1] = X
    /\ curdom[X] # {}

\* C5: a second prop_GAC call with the same argument, right after one that
\* returned True, returns True with an empty list and removes nothing.
GACIdempotent ==
    (pc = "returned" /\ prop = "GAC" /\ calls = 2)
        => (verdict /\ pruned_pairs = << >> /\ curdom = dom0)

\* the second call has returned, the first one had pruned something
GACIdempotentWitness ==
    /\ pc = "returned" /\ prop = "GAC" /\ calls = 2
    /\ acc # << >> /\ newVar # None

AssignmentsPreserved ==
    pc \in {"fc", "gac", "returned"} => asg = asg0

\* forward checking has returned False after probing and pruning values
AssignmentsPreservedWitness ==
    /\ pc = "returned" /\ prop = "FC" /\ ~verdict /\ pruned_pairs # << >>
    /\ \E v \in Vars : asg[v] # None

\* some constraint with newVar is fully assigned and its tuple of assigned
\* values, in scope order, is not a satisfying tuple
BTViolation ==
    \E c \in Cons :
        /\ InScope(c, newVar)
        /\ \A i \in 1..Len(Scope(c)) : IsAssigned(Scope(c)[i])
        /\ [i \in 1..Len(Scope(c)) |-> asg[Scope(c)[i]]] \notin Sat(c)

\* C8: prop_BT returns an empty list and removes no value; with newVar unset
\* it returns True; with newVar set it returns False exactly when some
\* constraint containing newVar is fully assigned and violated.
BTContract ==
    (pc = "returned" /\ prop = "BT") =>
        /\ pruned_pairs = << >>
        /\ curdom = dom0
        /\ newVar = None => verdict
        /\ newVar # None => (~verdict <=> BTViolation)

\* prop_BT has returned False while another variable is still unassigned
BTContractWitness ==
    /\ pc = "returned" /\ prop = "BT" /\ ~verdict
    /\ \E v \in Vars : asg[v] = None

\* C9: prop_FC returns False exactly when the variable fc_check has just
\* run through has an empty current domain; it then returns in that very
\* step, before any later constraint; it returns True only once every
\* constraint is scanned; either way the returned list is the record as it
\* stands and holds every value removed since the call started.
FCWipeoutContract ==
    [][pc = "fc" =>
        /\ (X # None /\ ds = << >> /\ curdom[X] = {})
              => (pc' = "returned" /\ ~verdict')
        /\ pc' = "returned" =>
              /\ ~verdict' <=> (X # None /\ ds = << >> /\ curdom[X] = {})
              /\ verdict' => (X = None /\ ci > Len(cons))
              /\ pruned_pairs' = pruned_pairs
              /\ curdom' = curdom
              /\ \A v \in Vars : dom0[v] \ curdom[v] = RecordedFor(v)]_vars

\* prop_FC has returned False with prunings of two variables in the list
FCWipeoutContractWitness ==
    /\ pc = "returned" /\ prop = "FC" /\ ~verdict
    /\ \E i, j \in 1..Len(pruned_pairs) : pruned_pairs[i][1] # pruned_pairs[j][1]

\* C10: in prop_GAC a prune that leaves the variable's current domain empty
\* ends the call in that very step with False, the worklist cleared and the
\* pruned pair last in the list; the call returns False in no other way,
\* and returns True only from an empty worklist.
GACWipeoutContract ==
    [][pc = "gac" =>
        /\ \A v \in Vars : \A d \in Dom(v) :
              pruned_pairs' = Append(pruned_pairs, << v, d >>)
              => ((CurDomainSize(v)' = 0) <=> (pc' = "returned" /\ ~verdict'))
        /\ (pc' = "returned" /\ ~verdict')
              => /\ gac_q' = << >>
                 /\ \E v \in Vars : \E d \in Dom(v) :
                       /\ pruned_pairs' = Append(pruned_pairs, << v, d >>)
                       /\ CurDomainSize(v)' = 0
        /\ (pc' = "returned" /\ verdict')
              => (gac_q = << >> /\ pruned_pairs' = pruned_pairs)]_vars

\* prop_GAC has returned False after pruning values of two variables
GACWipeoutContractWitness ==
    /\ pc = "returned" /\ prop = "GAC" /\ ~verdict
    /\ \E i, j \in 1..Len(pruned_pairs) : pruned_pairs[i][1] # pruned_pairs[j][1]

\* the pairs of the pruning record, as a set
RecordSet == {pruned_pairs[i] : i \in 1..Len(pruned_pairs)}

\* C11: X1, X2, X3 with domain {1,2,3}, nothing pruned, one all-different
\* constraint: after X1 = 1, prop_GAC(csp, X1) returns True with exactly the
\* two pairs (X2,1) and (X3,1), and X2, X3 keep the domain {2,3}.
GACAllDiffScenario ==
    (/\ k = 1 /\ prop = "GAC" /\ pc = "returned" /\ newVar = 1
     /\ asg0 = << 1, None, None >>
     /\ dom0 = << {1,2,3}, {1,2,3}, {1,2,3} >>)
    => /\ verdict
       /\ Len(pruned_pairs) = 2
       /\ RecordSet = {<< 2, 1 >>, << 3, 1 >>}
       /\ curdom = << {1,2,3}, {2,3}, {2,3} >>

\* the first call of that scenario has returned
GACAllDiffScenarioWitness ==
    /\ k = 1 /\ prop = "GAC" /\ pc = "returned" /\ newVar = 1 /\ calls = 1
    /\ asg0 = << 1, None, None >>
    /\ dom0 = << {1,2,3}, {1,2,3}, {1,2,3} >>

\* the CSPs of two variables linked by one not-equal constraint
TwoCellNe == {2, 3, 10}

\* C12: A and B linked by one not-equal constraint, B unassigned: after
\* A = a, prop_FC(csp, A) returns the list [(B,a)] when a was in B's current
\* domain and the empty list otherwise, and returns False exactly when B's
\* current domain was a subset of {a}; domains {1,2},{1,2} with A = 1 give
\* (True, [(B,1)]) and leave B the domain {2}; domains {1},{1} with A = 1
\* give (False, [(B,1)]).
FCNotEqualScenario ==
    \A A \in 1..2 : \A B \in 1..2 :
        (/\ k \in TwoCellNe /\ prop = "FC" /\ pc = "returned" /\ calls = 1
         /\ newVar = A /\ B # A /\ asg0[B] = None)
        => /\ pruned_pairs = (IF asg0[A] \in dom0[B]
                              THEN << << B, asg0[A] >> >> ELSE << >>)
           /\ ~verdict <=> dom0[B] \subseteq {asg0[A]}
           /\ (k = 2 /\ asg0[A] = 1)
                 => (verdict /\ pruned_pairs = << << B, 1 >> >> /\ curdom[B] = {2})
           /\ (k = 3 /\ asg0[A] = 1)
                 => (~verdict /\ pruned_pairs = << << B, 1 >> >>)

\* the call has returned True with nothing pruned: a was not in B's domain
FCNotEqualScenarioWitness ==
    /\ k = 10 /\ prop = "FC" /\ pc = "returned" /\ calls = 1
    /\ newVar = 1 /\ asg0[2] = None /\ asg0[1] = 1
    /\ verdict /\ pruned_pairs = << >>

\* the constraints a call with argument nv scans: all of them for None, those
\* whose scope holds nv otherwise
Scanned(nv) == {c \in Cons : nv = None \/ InScope(c, nv)}

\* c has exactly one unassigned scope variable, and it is x
SoleUnassigned(c, x) ==
    /\ InScope(c, x) /\ asg[x] = None
    /\ \A i \in 1..Len(Scope(c)) : Scope(c)[i] # x => asg[Scope(c)[i]] # None

\* c holds with x = d and the assigned values of its other scope variables
SatisfiedWith(c, x, d) ==
    [i \in 1..Len(Scope(c)) |-> IF Scope(c)[i] = x THEN d ELSE asg[Scope(c)[i]]]
        \in Sat(c)

\* C13: after prop_FC returns True, every value left in the current domain
\* of the sole unassigned variable of a scanned constraint satisfies that
\* constraint with the assigned values of its other variables; and prop_FC
\* prunes only variables that are the sole unassigned variable of a scanned
\* constraint.
FCForwardChecked ==
    /\ (pc = "returned" /\ prop = "FC" /\ verdict) =>
          \A c \in Scanned(newVar) : \A x \in Vars :
              SoleUnassigned(c, x) => \A d \in curdom[x] : SatisfiedWith(c, x, d)
    /\ (pc \in {"fc", "returned"} /\ prop = "FC") =>
          \A i \in 1..Len(pruned_pairs) :
              \E c \in Scanned(newVar) : SoleUnassigned(c, pruned_pairs[i][1])

\* prop_FC has returned True after pruning two variables, with a variable
\* of another constraint untouched
FCForwardCheckedWitness ==
    /\ pc = "returned" /\ prop = "FC" /\ verdict /\ newVar # None
    /\ \E i, j \in 1..Len(pruned_pairs) : pruned_pairs[i][1] # pruned_pairs[j][1]
    /\ \E v \in Vars : asg[v] = None /\ curdom[v] = Dom(v)

\* C14: in prop_GAC, right after a prune that does not end the call, every
\* constraint whose scope holds the pruned variable is in the worklist, the
\* constraint being processed included; and a constraint leaves the worklist
\* only by being popped for checking or by the False return, so each is
\* checked again before a True return (which needs an empty worklist).
GACRequeueAll ==
    [][pc = "gac" =>
        /\ \A v \in Vars : \A d \in Dom(v) :
              (pruned_pairs' = Append(pruned_pairs, << v, d >>) /\ pc' = "gac")
              => /\ InScope(con, v) /\ InSeq(con, gac_q')
                 /\ \A c \in Cons : InScope(c, v) => InSeq(c, gac_q')
        /\ \A c \in Cons :
              (InSeq(c, gac_q) /\ ~InSeq(c, gac_q'))
              => (con' = c \/ (pc' = "returned" /\ ~verdict'))
        /\ (pc' = "returned" /\ verdict') => gac_q = << >>]_vars

\* right after a prune: the pruned variable is in several constraints, all
\* of them queued, the one being processed among them
GACRequeueAllWitness ==
    /\ pc = "gac" /\ con # None /\ pruned_pairs # << >>
    /\ InScope(con, Last(pruned_pairs)[1])
    /\ Cardinality({c \in Cons : InScope(c, Last(pruned_pairs)[1])}) >= 2
    /\ \A c \in Cons : InScope(c, Last(pruned_pairs)[1]) => InSeq(c, gac_q)

\* C16: in a run of the search with prop_GAC (the call with None first, then
\* one call per assignment with the assigned variable, prunings restored and
\* the assignment undone on False or on backtracking), every state the search
\* stands in after a True verdict, before its next assignment, is globally
\* arc consistent.
GACRunArcConsistent == (prop = "GAC" /\ pc = "idle") => AllSupported

\* two assignments deep, after calls seeded with the assigned variable's
\* constraints only, with values pruned from a variable not yet assigned
GACRunArcConsistentWitness ==
    /\ prop = "GAC" /\ pc = "idle" /\ Len(stack) >= 3
    /\ Last(stack).var # None
    /\ \E v \in Vars : asg[v] = None /\ curdom[v] # Dom(v)

\* every variable holds a value
AllAssigned == \A v \in Vars : asg[v] # None

\* the assigned values of c's scope, in scope order, are a satisfying tuple
Satisfied(c) == [i \in 1..Len(Scope(c)) |-> asg[Scope(c)[i]]] \in Sat(c)

\* C17: with any of the three propagators, in a run that calls it with None
\* first and with the assigned variable after each assignment, and goes on
\* only after True, whenever every variable is assigned and the last call
\* returned True, the assignment satisfies every constraint.
SolutionsSatisfy ==
    (pc \in {"returned", "idle"} /\ verdict /\ AllAssigned)
        => \A c \in Cons : Satisfied(c)

\* forward checking returns True for the last of three assignments of a CSP
\* with several constraints
SolutionsSatisfyWitness ==
    /\ pc = "returned" /\ verdict /\ AllAssigned /\ prop = "FC"
    /\ newVar # None /\ Len(stack) = 3 /\ Cardinality(Cons) >= 3

\* no pair of the pruning record names a variable that holds a value
NoAssignedPruned ==
    \A i \in 1..Len(pruned_pairs) : asg[pruned_pairs[i][1]] = None

\* the value of every assigned variable is among its unpruned values
AssignedKept == \A v \in Vars : asg[v] # None => asg[v] \in curdom[v]

\* C18 as stated: every pair returned by a propagator names a variable that
\* was unassigned when the call was made, and the value of every assigned
\* variable is unpruned after the call.
PrunedNeverAssigned == pc = "returned" => (NoAssignedPruned /\ AssignedKept)

\* C18, amended: the pairs recorded by prop_FC, and the pairs returned by
\* prop_GAC with True, name variables that are unassigned, and the value of
\* every assigned variable is unpruned in those states and while the search
\* stands between calls; a call of prop_GAC that returns False may have
\* pruned and recorded the value of an assigned variable.
PrunedAssignedOnlyOnGACFalse ==
    (prop # "GAC" \/ (pc \in {"returned", "idle"} /\ verdict))
        => (NoAssignedPruned /\ AssignedKept)

\* prop_GAC returns True with prunings, two variables holding values
PrunedAssignedOnlyOnGACFalseWitness ==
    /\ prop = "GAC" /\ pc = "returned" /\ verdict /\ pruned_pairs # << >>
    /\ Cardinality({v \in Vars : asg[v] # None}) >= 2

\* C19: at every step of a prop_GAC call the worklist holds each constraint
\* at most once (the lists get_all_cons() and get_cons_with_var() hand out
\* hold no constraint twice).
GACQueueNoDuplicates ==
    pc = "gac" => \A i, j \in 1..Len(gac_q) : gac_q[i] = gac_q[j] => i = j

\* after a prune has pushed constraints, two or more are waiting
GACQueueNoDuplicatesWitness ==
    /\ pc = "gac" /\ pruned_pairs # << >> /\ Len(gac_q) >= 2
    /\ newVar # None
    /\ \E i \in 1..Len(gac_q) : ~InSeq(gac_q[i], GetConsWithVar(newVar))

(* C15: the worklist of prop_GAC is private to the call: no step of a       *)
(* prop_GAC call (dequeue, re-enqueue, clear) changes the constraint list    *)
(* the CSP hands out through get_all_cons().                                 *)
GACWorklistPrivate == [][pc = "gac" => csp_cons' = csp_cons]_vars

TypeOK ==
    /\ pc \in {"start", "call", "idle", "fc", "gac", "returned", "done"}
    /\ \A v \in Vars : curdom[v] \subseteq Dom(v) /\ asg[v] \in Dom(v) \cup {None}
    /\ own_list \in BOOLEAN /\ aliased \in BOOLEAN
    /\ \A i \in 1..Len(csp_cons) : csp_cons[i] \in Cons
    /\ aliased => gac_q = csp_cons

====
